---- MODULE Spec2Model ----
(***************************************************************************)
(* A model of music-transcode.py: the reconciliation run sync_paths, its   *)
(* jobs copy_file / copy_flac / sync_flac, and the pure helpers they use.  *)
(*                                                                         *)
(* A Python str is modelled as a sequence of one-character strings, so     *)
(* that split, join, dirname, startswith and the regular-expression        *)
(* substitutions are computed here the way the program computes them.      *)
(***************************************************************************)
EXTENDS Integers, Sequences, FiniteSets, TLC

VARIABLES
    cfg,                     \* the arguments of sync_paths: format, rewrite, fat, no_extra, android
    srcTree,                 \* the source tree: physical relative name -> [mtime, tags]
    dstFiles,                \* the destination's files: relative name -> [mtime, whole, tags]
    dstDirs,                 \* the destination's directories: relative name -> mtime
    now,                     \* the clock
    pc,                      \* where the run is
    runs,                    \* the outcomes of the runs that have ended, in order
    src_dirs,                \* line 259
    src_files,               \* line 260
    dst_dirs,                \* line 261
    dst_files,               \* line 262
    src_flac_files,          \* line 290
    src_flac_map_files,      \* line 291
    src_as_format_files,     \* line 292
    src_not_flac_files,      \* line 293
    src_not_flac_map_files,  \* line 294
    dst_format_files,        \* line 319
    todo,                    \* the elements the current for loop has still to visit
    jobs,                    \* the jobs handed to the pool: [kind, name] -> its position
    failures,                \* how many external commands have failed so far
    events,                  \* history: the mutations this run has performed
    dst0,                    \* history: dstFiles when this run started
    sfName,                  \* safe_filename: the argument of the last call
    sfResult,                \* safe_filename: the return value of the last call (<<>> before any call)
    rmStat,                  \* round_mtime: st_atime and st_mtime of the file
    rmStat0,                 \* history: rmStat before the first call
    rmCalls,                 \* round_mtime: how many times it has been called on the file
    wkSrc,                   \* ancestor walk: the src argument as it was given
    wkName,                  \* ancestor walk: name of line 266
    wkDir,                   \* ancestor walk: walk_dir of lines 268-278
    wkCfg,                   \* ancestor walk: the arguments rewrite and android
    wkDirs,                  \* ancestor walk: what the loop has added to src_dirs
    wkPc,                    \* ancestor walk: "walk" in the loop, "walked" past it, "raised"
    wkSteps,                 \* ancestor walk: how many iterations the loop has run
    acFs,                    \* _has_access: the file system, path -> what os.lstat returns
    acPath,                  \* _has_access: the path of the last outermost call
    acResult                 \* _has_access: its return value (<<>> before any call)

fsVars == <<dstFiles, dstDirs>>

scanVars ==
    <<src_dirs, src_files, dst_dirs, dst_files, src_flac_files, src_flac_map_files,
      src_as_format_files, src_not_flac_files, src_not_flac_map_files, dst_format_files>>

\* the sets the scan builds and no later step changes
fixedScanVars ==
    <<src_dirs, src_files, dst_dirs, src_flac_files, src_flac_map_files,
      src_as_format_files, src_not_flac_files, src_not_flac_map_files>>

inputVars == <<cfg, srcTree>>

sfVars == <<sfName, sfResult>>

rmVars == <<rmStat, rmStat0, rmCalls>>

wkVars == <<wkSrc, wkName, wkDir, wkCfg, wkDirs, wkPc, wkSteps>>

acVars == <<acFs, acPath, acResult>>

\* the variables of the specifications of single functions
auxVars == <<sfVars, rmVars, wkVars, acVars>>

mainVars ==
    <<cfg, srcTree, dstFiles, dstDirs, now, pc, runs, scanVars, todo, jobs, failures,
      events, dst0>>

vars == <<mainVars, auxVars>>

(***************************************************************************)
(* str primitives                                                          *)
(***************************************************************************)
startswith(s, p) ==
    Len(p) <= Len(s) /\ SubSeq(s, 1, Len(p)) = p

endswith(s, p) ==
    Len(p) <= Len(s) /\ SubSeq(s, Len(s) - Len(p) + 1, Len(s)) = p

\* p in s
contains(s, p) ==
    \E i \in 1..(Len(s) - Len(p) + 1) : SubSeq(s, i, i + Len(p) - 1) = p

\* s.find(c) for a single character, 0 when absent
find(s, c) ==
    IF \E i \in 1..Len(s) : s[i] = c
    THEN CHOOSE i \in 1..Len(s) : s[i] = c /\ \A j \in 1..(i - 1) : s[j] # c
    ELSE 0

\* s.rfind(c) for a single character, 0 when absent
rfind(s, c) ==
    IF \E i \in 1..Len(s) : s[i] = c
    THEN CHOOSE i \in 1..Len(s) : s[i] = c /\ \A j \in (i + 1)..Len(s) : s[j] # c
    ELSE 0

RECURSIVE split(_, _)
\* s.split(c): a sequence of strings, never empty
split(s, c) ==
    LET i == find(s, c)
    IN  IF i = 0 THEN <<s>>
        ELSE <<SubSeq(s, 1, i - 1)>> \o split(SubSeq(s, i + 1, Len(s)), c)

RECURSIVE joinstr(_, _)
\* sep.join(parts)
joinstr(parts, sep) ==
    IF Len(parts) = 0 THEN <<>>
    ELSE IF Len(parts) = 1 THEN parts[1]
    ELSE parts[1] \o sep \o joinstr(Tail(parts), sep)

RECURSIVE replace(_, _, _)
\* s.replace(old, new), old not empty
replace(s, old, new) ==
    IF Len(s) < Len(old) THEN s
    ELSE IF SubSeq(s, 1, Len(old)) = old
         THEN new \o replace(SubSeq(s, Len(old) + 1, Len(s)), old, new)
         ELSE <<s[1]>> \o replace(Tail(s), old, new)

RECURSIVE rstrip(_, _)
\* s.rstrip(c) for a single character
rstrip(s, c) ==
    IF Len(s) > 0 /\ s[Len(s)] = c THEN rstrip(SubSeq(s, 1, Len(s) - 1), c) ELSE s

(***************************************************************************)
(* os.path (posixpath)                                                     *)
(***************************************************************************)
dirname(p) ==
    LET head == SubSeq(p, 1, rfind(p, "/"))
    IN  IF head # <<>> /\ \E i \in 1..Len(head) : head[i] # "/"
        THEN rstrip(head, "/")
        ELSE head

basename(p) ==
    SubSeq(p, rfind(p, "/") + 1, Len(p))

\* os.path.join(a, b)
pathjoin(a, b) ==
    IF startswith(b, <<"/">>) THEN b
    ELSE IF a = <<>> \/ endswith(a, <<"/">>) THEN a \o b
    ELSE a \o <<"/">> \o b

RECURSIVE normparts(_, _)
\* the components of normpath(p) for an absolute p: empty and "." components
\* dropped, ".." removing the component before it
normparts(parts, acc) ==
    IF Len(parts) = 0 THEN acc
    ELSE LET x == parts[1]
         IN  IF x = <<>> \/ x = <<".">> THEN normparts(Tail(parts), acc)
             ELSE IF x = <<".", ".">>
                  THEN normparts(Tail(parts),
                                 IF Len(acc) = 0 THEN acc ELSE SubSeq(acc, 1, Len(acc) - 1))
                  ELSE normparts(Tail(parts), Append(acc, x))

commonlen(a, b) ==
    LET n == IF Len(a) < Len(b) THEN Len(a) ELSE Len(b)
        ok(i) == \A j \in 1..i : a[j] = b[j]
    IN  CHOOSE i \in 0..n : ok(i) /\ (i = n \/ ~ok(i + 1))

\* os.path.relpath(path, start), both absolute
relpath(path, start) ==
    LET start_list == normparts(split(start, "/"), <<>>)
        path_list  == normparts(split(path, "/"), <<>>)
        i          == commonlen(start_list, path_list)
        rel_list   == [k \in 1..(Len(start_list) - i) |-> <<".", ".">>]
                         \o SubSeq(path_list, i + 1, Len(path_list))
    IN  IF Len(rel_list) = 0 THEN <<".">> ELSE joinstr(rel_list, <<"/">>)

(***************************************************************************)
(* safe_filename                                                           *)
(***************************************************************************)
safe_filename(name) ==
    IF startswith(name, <<"/">>) \/ startswith(name, <<".", "/">>)
           \/ startswith(name, <<".", ".", "/">>)
    THEN FALSE
    ELSE IF endswith(name, <<"/">>) \/ endswith(name, <<"/", ".">>)
           \/ endswith(name, <<"/", ".", ".">>)
    THEN FALSE
    ELSE IF contains(name, <<"/", ".", "/">>) \/ contains(name, <<"/", ".", ".", "/">>)
    THEN FALSE
    ELSE TRUE

(***************************************************************************)
(* Program constants (lines 37-49)                                         *)
(***************************************************************************)
FLAC == <<"f", "l", "a", "c">>
MP3  == <<"m", "p", "3">>
OGG  == <<"o", "g", "g">>
M4A  == <<"m", "4", "a">>

extensions == {FLAC, MP3, OGG, M4A}

COVER_JPG == <<"c", "o", "v", "e", "r", ".", "j", "p", "g">>

PLAYLIST_JPG ==
    <<"p", "l", "a", "y", "l", "i", "s", "t", "-",
      "c", "h", "r", "i", "s", "t", "m", "a", "s", ".", "j", "p", "g">>

extra == {COVER_JPG, PLAYLIST_JPG}

LowerCase ==
    {"a", "b", "c", "d", "e", "f", "g", "h", "i", "j", "k", "l", "m",
     "n", "o", "p", "q", "r", "s", "t", "u", "v", "w", "x", "y", "z"}

UpperCase ==
    {"A", "B", "C", "D", "E", "F", "G", "H", "I", "J", "K", "L", "M",
     "N", "O", "P", "Q", "R", "S", "T", "U", "V", "W", "X", "Y", "Z"}

Digits == {"0", "1", "2", "3", "4", "5", "6", "7", "8", "9"}

\* the characters re_unsafe_f leaves alone: [A-Za-z0-9 .,&'()_-]
safe_f_chars ==
    LowerCase \cup UpperCase \cup Digits \cup {" ", ".", ",", "&", "'", "(", ")", "_", "-"}

\* the characters re_unsafe_d leaves alone: the same and "/"
safe_d_chars == safe_f_chars \cup {"/"}

\* the characters re_unsafe_android replaces: ["*:<>?\\|]
unsafe_android_chars == {"\"", "*", ":", "<", ">", "?", "\\", "|"}

\* U+2236 RATIO and U+2E2E REVERSED QUESTION MARK, each one character
RATIO == "U+2236"
REVERSED_QUESTION == "U+2E2E"

\* U+00E9, a character outside ASCII that unidecode transliterates
E_ACUTE == "U+00E9"

\* the value of an expression whose evaluation raises (a failed assert, a
\* KeyError, a ValueError); no str contains this element
RAISED == <<"<raised>">>

\* re.sub of single characters: every character outside keep becomes "_"
sub_unsafe(text, keep) ==
    [i \in 1..Len(text) |-> IF text[i] \in keep THEN text[i] ELSE "_"]

\* unidecode.unidecode on the characters the source trees of the model use:
\* ASCII is kept, U+00E9 becomes "e"
unidecode_char(c) ==
    IF c = E_ACUTE THEN <<"e">> ELSE <<c>>

RECURSIVE unidecode(_)
unidecode(text) ==
    IF Len(text) = 0 THEN <<>> ELSE unidecode_char(text[1]) \o unidecode(Tail(text))

(***************************************************************************)
(* filter_file (lines 58-64)                                               *)
(***************************************************************************)
filter_file(name, no_extra) ==
    LET base  == basename(name)
        parts == split(base, ".")
    IN  IF parts[Len(parts)] \in extensions THEN TRUE
        ELSE IF ~no_extra /\ base \in extra THEN TRUE
        ELSE FALSE

(***************************************************************************)
(* Name normalisation (lines 166-203)                                      *)
(***************************************************************************)
fat_safe(text) ==
    IF text = <<>> THEN RAISED
    ELSE LET t == rstrip(text, ".")
         IN  IF t = <<>> THEN RAISED ELSE t

safe_chars_only(text, file) ==
    IF text = <<>> \/ text = RAISED THEN RAISED
    ELSE LET t1   == replace(text, <<"P", "!", "n", "k">>, <<"P", "i", "n", "k">>)
             segs == split(t1, "/")
             safe == [i \in 1..Len(segs) |->
                         fat_safe(replace(unidecode(segs[i]), <<"/">>, <<"_">>))]
         IN  IF \E i \in 1..Len(segs) : safe[i] = RAISED THEN RAISED
             ELSE LET t2 == joinstr(safe, <<"/">>)
                      t3 == IF file THEN sub_unsafe(t2, safe_f_chars)
                                    ELSE sub_unsafe(t2, safe_d_chars)
                  IN  IF t3 = <<>> THEN RAISED ELSE t3

android_safe_chars_only(text) ==
    IF text = <<>> THEN RAISED
    ELSE LET t1 == [i \in 1..Len(text) |->
                       IF text[i] = ":" THEN RATIO
                       ELSE IF text[i] = "?" THEN REVERSED_QUESTION
                       ELSE text[i]]
         IN  [i \in 1..Len(t1) |-> IF t1[i] \in unsafe_android_chars THEN "_" ELSE t1[i]]

\* the value of a decimal digit
digit_value(c) ==
    CASE c = "0" -> 0 [] c = "1" -> 1 [] c = "2" -> 2 [] c = "3" -> 3 [] c = "4" -> 4
      [] c = "5" -> 5 [] c = "6" -> 6 [] c = "7" -> 7 [] c = "8" -> 8 [] c = "9" -> 9

digit_char(n) ==
    CASE n = 0 -> "0" [] n = 1 -> "1" [] n = 2 -> "2" [] n = 3 -> "3" [] n = 4 -> "4"
      [] n = 5 -> "5" [] n = 6 -> "6" [] n = 7 -> "7" [] n = 8 -> "8" [] n = 9 -> "9"

RECURSIVE int_of(_, _)
\* int(s) for a str of decimal digits
int_of(s, acc) ==
    IF Len(s) = 0 THEN acc ELSE int_of(Tail(s), 10 * acc + digit_value(s[1]))

is_digits(s) ==
    Len(s) > 0 /\ \A i \in 1..Len(s) : s[i] \in Digits

RECURSIVE str_of(_)
\* str(n), n >= 0
str_of(n) ==
    IF n < 10 THEN <<digit_char(n)>> ELSE str_of(n \div 10) \o <<digit_char(n % 10)>>

\* f"{n:02d}"
format_02d(n) ==
    IF n < 10 THEN <<"0">> \o str_of(n) ELSE str_of(n)

\* A tag mapping is a set of <<key, value>> pairs with one pair to a key.
has_tag(tags, key) == \E kv \in tags : kv[1] = key

\* tags[key][0]
tag_value(tags, key) == (CHOOSE kv \in tags : kv[1] = key)[2]

\* tags.get(key, [""])[0]
tag_get(tags, key) ==
    IF has_tag(tags, key) THEN tag_value(tags, key) ELSE <<>>

\* get_title, from the tags mutagen.flac.FLAC(filename) reads
get_title(tags) ==
    LET disc  == split(tag_get(tags, "DISCNUMBER"), "/")[1]
        track == split(tag_get(tags, "TRACKNUMBER"), "/")[1]
    IN  IF (disc # <<>> /\ ~is_digits(disc)) \/ (track # <<>> /\ ~is_digits(track))
        THEN RAISED
        ELSE IF ~has_tag(tags, "TITLE") THEN RAISED
        ELSE LET d      == IF disc # <<>> THEN format_02d(int_of(disc, 0)) \o <<".">> ELSE <<>>
                 t      == IF track # <<>> THEN format_02d(int_of(track, 0)) ELSE <<>>
                 prefix == IF d \o t # <<>> THEN d \o t \o <<" ">> ELSE <<>>
                 title  == safe_chars_only(replace(tag_value(tags, "TITLE"), <<"/">>, <<"-">>), TRUE)
             IN  IF title = RAISED THEN RAISED ELSE prefix \o title

(***************************************************************************)
(* round_mtime (lines 67-71).  A time is a whole number of ticks,          *)
(* TicksPerSecond ticks to the second, so st_mtime is t / TicksPerSecond.  *)
(***************************************************************************)
TicksPerSecond == 2

\* a plausible slip: the time is truncated where line 70 takes its ceiling
ceil_seconds_floor(t) == t \div TicksPerSecond

\* math.ceil(st_mtime)
ceil_seconds(t) == (t + TicksPerSecond - 1) \div TicksPerSecond

\* the st_mtime round_mtime leaves on a file whose st_mtime was t
round_mtime(t) ==
    IF t % (2 * TicksPerSecond) # 0
    THEN ((ceil_seconds(t) + 1) \div 2) * 2 * TicksPerSecond
    ELSE t

\* what os.lstat returns for the file after round_mtime: os.utime is given the
\* st_atime it read (line 71)
round_mtime_stat(st) ==
    IF st.st_mtime % (2 * TicksPerSecond) # 0
    THEN [st_atime |-> st.st_atime, st_mtime |-> round_mtime(st.st_mtime)]
    ELSE st

(***************************************************************************)
(* The trees and the arguments the model runs sync_paths on               *)
(***************************************************************************)
\* the src argument, an absolute name with no trailing "/"
SrcRoot == <<"/", "m">>

MaxSrcFiles == 2
MaxDstEntries == 2
Now0 == 3
MaxTime == 4
MaxRuns == 2
MaxFailures == 1

SrcTimes == {Now0 - 1, Now0}
DstTimes == {Now0 - 1, Now0}

TagsT == {<<"TRACKNUMBER", <<"1">>>>, <<"TITLE", <<"T">>>>}
TagsNoTitle == {<<"TRACKNUMBER", <<"2">>>>}
\* tags with a key EasyID3 does not know and a key line 145 leaves out
TagsFull == TagsT \cup {<<"COMMENT", <<"c">>>>, <<"replaygain_track_gain", <<"g">>>>}
NoTags == {}

\* the function with no argument
EmptyFn == [x \in {} |-> x]

A_x_flac    == <<"A", "/", "x", ".">> \o FLAC
A_y_flac    == <<"A", "/", "y", ".">> \o FLAC
A_B_z_flac  == <<"A", "/", "B", "/", "z", ".">> \o FLAC
A_x_ogg     == <<"A", "/", "x", ".">> \o OGG
b_star_mp3  == <<"b", "*", ".">> \o MP3
b_under_mp3 == <<"b", "_", ".">> \o MP3
A_cover_jpg == <<"A", "/">> \o COVER_JPG
A_01T_ogg   == <<"A", "/", "0", "1", " ", "T", ".">> \o OGG
A_B_o_ogg   == <<"A", "/", "B", "/", "o", ".">> \o OGG
A_x_ogg_tmp == A_x_ogg \o <<"~">>

A_x_mp3     == <<"A", "/", "x", ".">> \o MP3

Flac_x   == [name |-> A_x_flac,    tags |-> TagsT]
Flac_y   == [name |-> A_y_flac,    tags |-> TagsFull]
Flac_z   == [name |-> A_B_z_flac,  tags |-> TagsNoTitle]
Ogg_x    == [name |-> A_x_ogg,     tags |-> NoTags]
Mp3_star == [name |-> b_star_mp3,  tags |-> NoTags]
Mp3_b    == [name |-> b_under_mp3, tags |-> NoTags]
Cover    == [name |-> A_cover_jpg, tags |-> NoTags]
\* a file of the source root named flac: line 297 takes it for a flac file
\* with the empty name
Flac_bare == [name |-> FLAC,       tags |-> TagsT]

Default ==
    [format |-> OGG, rewrite |-> FALSE, android |-> FALSE, fat |-> FALSE,
     no_extra |-> FALSE]

\* The arguments the model runs sync_paths with, each with the source files
\* (name and tags) a source tree is drawn from and the files and directories
\* an initial destination tree is drawn from.  Every option is switched on
\* against the default arguments, with names that its code treats differently.
Scenarios ==
    { [cfg   |-> Default,
       src   |-> {Flac_x, Ogg_x, Flac_z, Mp3_b, Cover},
       files |-> {A_x_ogg, A_B_o_ogg, A_x_ogg_tmp, <<"A">>},
       dirs  |-> {<<"E">>, A_x_ogg}],
      [cfg   |-> [Default EXCEPT !.rewrite = TRUE],
       src   |-> {Flac_x, Flac_y, Flac_z, Mp3_star, Mp3_b},
       files |-> {A_01T_ogg, b_under_mp3, A_B_o_ogg, A_x_ogg},
       dirs  |-> {<<"E">>}],
      [cfg   |-> [Default EXCEPT !.android = TRUE],
       src   |-> {Flac_x, Mp3_star, Mp3_b, Cover},
       files |-> {A_x_ogg, b_under_mp3, A_B_o_ogg, b_star_mp3},
       dirs  |-> {<<"E">>}],
      [cfg   |-> [Default EXCEPT !.format = MP3],
       src   |-> {Flac_x, Ogg_x, Mp3_b, Flac_y},
       files |-> {A_x_mp3, A_x_ogg, b_under_mp3, A_B_o_ogg},
       dirs  |-> {<<"E">>}],
      [cfg   |-> [Default EXCEPT !.fat = TRUE],
       src   |-> {Flac_x, Mp3_b, Flac_z, Cover},
       files |-> {A_x_ogg, b_under_mp3, A_B_o_ogg, A_cover_jpg},
       dirs  |-> {<<"E">>}],
      [cfg   |-> [Default EXCEPT !.no_extra = TRUE],
       src   |-> {Flac_x, Cover, Mp3_b, Flac_bare},
       files |-> {A_cover_jpg, A_x_ogg, b_under_mp3, OGG},
       dirs  |-> {<<"E">>}] }

RECURSIVE Ancestors(_)
\* the directories above a relative name
Ancestors(name) ==
    LET d == dirname(name)
    IN  IF d = <<>> THEN {} ELSE {d} \cup Ancestors(d)

\* the source trees of at most MaxSrcFiles files of catalogue, each file with
\* a modification time of its own
SrcTrees(catalogue) ==
    UNION { { [n \in {e.name : e \in S} |->
                 [mtime |-> mt[n],
                  tags  |-> (CHOOSE e \in S : e.name = n).tags]]
              : mt \in [{e.name : e \in S} -> SrcTimes] }
            : S \in {S \in SUBSET catalogue : Cardinality(S) <= MaxSrcFiles} }

\* a choice of files F and directories E is a tree when no file is also a directory
IsTree(F, E) ==
    LET dirs == E \cup UNION {Ancestors(n) : n \in F \cup E}
    IN  F \cap dirs = {}

DstShapes(files, dirs) ==
    { sh \in (SUBSET files) \X (SUBSET dirs) :
          Cardinality(sh[1]) + Cardinality(sh[2]) <= MaxDstEntries /\ IsTree(sh[1], sh[2]) }

\* the files of an initial destination tree are whole and were written at one time
InitialDstFiles(F) ==
    { [n \in F |-> [mtime |-> t, whole |-> TRUE, tags |-> NoTags]] : t \in DstTimes }

InitialDstDirs(F, E) ==
    [d \in E \cup UNION {Ancestors(n) : n \in F \cup E} |-> Now0 - 1]

EmptyScan ==
    /\ src_dirs = {}
    /\ src_files = {}
    /\ dst_dirs = {}
    /\ dst_files = {}
    /\ src_flac_files = {}
    /\ src_flac_map_files = EmptyFn
    /\ src_as_format_files = {}
    /\ src_not_flac_files = {}
    /\ src_not_flac_map_files = EmptyFn
    /\ dst_format_files = {}

\* no call of safe_filename, of round_mtime, of the ancestor loop or of
\* _has_access is followed on its own
SfIdle == sfName = <<>> /\ sfResult = <<>>

RmIdle ==
    /\ rmStat = [st_atime |-> 0, st_mtime |-> 0]
    /\ rmStat0 = rmStat
    /\ rmCalls = 0

WkIdle ==
    /\ wkSrc = <<>>
    /\ wkName = <<>>
    /\ wkDir = <<>>
    /\ wkCfg = Default
    /\ wkDirs = {}
    /\ wkPc = "idle"
    /\ wkSteps = 0

AcIdle == acFs = EmptyFn /\ acPath = <<>> /\ acResult = <<>>

Init ==
    /\ \E sc \in Scenarios :
          /\ cfg = sc.cfg
          /\ srcTree \in SrcTrees(sc.src)
          /\ \E sh \in DstShapes(sc.files, sc.dirs) :
                /\ dstFiles \in InitialDstFiles(sh[1])
                /\ dstDirs = InitialDstDirs(sh[1], sh[2])
    /\ now = Now0
    /\ pc = "scan"
    /\ runs = <<>>
    /\ EmptyScan
    /\ todo = {}
    /\ jobs = EmptyFn
    /\ failures = 0
    /\ events = {}
    /\ dst0 = dstFiles
    /\ SfIdle
    /\ RmIdle
    /\ WkIdle
    /\ AcIdle

(***************************************************************************)
(* The scan (lines 259-324)                                                *)
(***************************************************************************)
\* _has_access with user None (lines 214-215)
has_access(path) == TRUE

\* the directory name recorded for dir_name (lines 271-276)
modified_dirname(dir_name, c) ==
    IF c.rewrite THEN safe_chars_only(dir_name, FALSE)
    ELSE IF c.android THEN android_safe_chars_only(dir_name)
    ELSE dir_name

\* a plausible slip: only the directory that holds the file is recorded
walk_dirs_ParentOnly(walk_dir, src, c) ==
    IF walk_dir = src THEN {}
    ELSE {modified_dirname(relpath(walk_dir, src), c)}

RECURSIVE walk_dirs(_, _, _)
\* the while loop of lines 269-278, from walk_dir up to src
walk_dirs(walk_dir, src, c) ==
    IF walk_dir = src THEN {}
    ELSE {modified_dirname(relpath(walk_dir, src), c)}
             \cup walk_dirs(dirname(walk_dir), src, c)

\* the files of the source tree that pass line 267, as os.walk names them
accepted_files(tree, src, c) ==
    { pathjoin(src, n) : n \in { n \in DOMAIN tree :
          filter_file(pathjoin(src, n), c.no_extra) /\ has_access(pathjoin(src, n)) } }

scan_src_dirs(tree, src, c) ==
    UNION { walk_dirs(dirname(name), src, c) : name \in accepted_files(tree, src, c) }

scan_src_files(tree, src, c) ==
    { relpath(name, src) : name \in accepted_files(tree, src, c) }

with_ext(name, format) == name \o <<".">> \o format

\* parts[-1] == "flac" (lines 296-297)
is_flac(name) ==
    LET parts == split(name, ".") IN parts[Len(parts)] = FLAC

\* ".".join(parts[0:-1]) (line 298)
strip_ext(name) ==
    LET parts == split(name, ".")
    IN  joinstr(SubSeq(parts, 1, Len(parts) - 1), <<".">>)

\* get_title(os.path.join(src, f"{name}.flac")): mutagen raises when there is no
\* such file
title_of(tree, name) ==
    IF with_ext(name, FLAC) \in DOMAIN tree
    THEN get_title(tree[with_ext(name, FLAC)].tags)
    ELSE RAISED

\* modified_name of a flac file, name without its extension (lines 299-304)
modified_flac_name(tree, name, c) ==
    IF c.rewrite
    THEN LET d == safe_chars_only(dirname(name), FALSE)
             t == title_of(tree, name)
         IN  IF d = RAISED \/ t = RAISED THEN RAISED ELSE pathjoin(d, t)
    ELSE IF c.android THEN android_safe_chars_only(name)
    ELSE name

\* modified_name of any other file (lines 309-314)
modified_other_name(name, c) ==
    IF c.rewrite THEN safe_chars_only(name, FALSE)
    ELSE IF c.android THEN android_safe_chars_only(name)
    ELSE name

\* lines 319-324
scan_dst_format_files(files, format) ==
    { strip_ext(n) : n \in { n \in files : LET parts == split(n, ".")
                                           IN  parts[Len(parts)] = format } }

\* the sets of lines 259-324 as one record
CurScan ==
    [ src_dirs |-> src_dirs, dst_dirs |-> dst_dirs, dst_files |-> dst_files,
      src_flac_files |-> src_flac_files, src_as_format_files |-> src_as_format_files,
      src_not_flac_files |-> src_not_flac_files, dst_format_files |-> dst_format_files ]

(***************************************************************************)
(* The order of the loops and job lists of lines 326-365                   *)
(***************************************************************************)
PhaseOrder ==
    << "stale_flac", "stale_other", "delete_files", "delete_dirs", "create_dirs",
       "round_dirs", "copy", "transcode", "tagsync", "done" >>

LoopPhases ==
    {"stale_flac", "stale_other", "delete_files", "delete_dirs", "create_dirs", "round_dirs"}

JobPhases == {"copy", "transcode", "tagsync"}

PhaseIndex(p) == CHOOSE i \in 1..Len(PhaseOrder) : PhaseOrder[i] = p

\* a plausible slip: orphans are deleted before the staleness comparison
NextPhase_OrphansFirst(p) ==
    CASE p = "scan"         -> "delete_files"
      [] p = "delete_files" -> "stale_flac"
      [] p = "stale_flac"   -> "stale_other"
      [] p = "stale_other"  -> "delete_dirs"
      [] OTHER              -> PhaseOrder[PhaseIndex(p) + 1]

\* the statement that follows the loop or the job list p
NextPhase(p) ==
    IF p = "scan" THEN PhaseOrder[1] ELSE PhaseOrder[PhaseIndex(p) + 1]

\* a plausible slip: the two operands of line 348 swapped
LoopSet_PruneSwapped(p, S, c) ==
    CASE p = "stale_flac"   -> S.src_flac_files \cap S.dst_format_files
      [] p = "stale_other"  -> S.src_not_flac_files \cap S.dst_files
      [] p = "delete_files" -> S.dst_files \ S.src_as_format_files
      [] p = "delete_dirs"  -> S.src_dirs \ S.dst_dirs
      [] p = "create_dirs"  -> S.src_dirs \ S.dst_dirs
      [] p = "round_dirs"   -> IF c.fat THEN S.src_dirs \cap S.dst_dirs ELSE {}

\* a plausible slip: line 343 written with src_not_flac_files
LoopSet_OrphansIgnoreFlac(p, S, c) ==
    CASE p = "stale_flac"   -> S.src_flac_files \cap S.dst_format_files
      [] p = "stale_other"  -> S.src_not_flac_files \cap S.dst_files
      [] p = "delete_files" -> S.dst_files \ S.src_not_flac_files
      [] p = "delete_dirs"  -> S.dst_dirs \ S.src_dirs
      [] p = "create_dirs"  -> S.src_dirs \ S.dst_dirs
      [] p = "round_dirs"   -> IF c.fat THEN S.src_dirs \cap S.dst_dirs ELSE {}

\* the set the for loop of phase p iterates over, evaluated when the loop starts
LoopSet(p, S, c) ==
    CASE p = "stale_flac"   -> S.src_flac_files \cap S.dst_format_files
      [] p = "stale_other"  -> S.src_not_flac_files \cap S.dst_files
      [] p = "delete_files" -> S.dst_files \ S.src_as_format_files
      [] p = "delete_dirs"  -> S.dst_dirs \ S.src_dirs
      [] p = "create_dirs"  -> S.src_dirs \ S.dst_dirs
      [] p = "round_dirs"   -> IF c.fat THEN S.src_dirs \cap S.dst_dirs ELSE {}

\* a plausible slip: line 364 maps copy_flac over every flac file
JobNames_TranscodeAll(p, S) ==
    CASE p = "copy"      -> S.src_not_flac_files \ S.dst_files
      [] p = "transcode" -> S.src_flac_files
      [] p = "tagsync"   -> S.src_flac_files \cap S.dst_format_files

\* the names the list comprehension of job list p yields (lines 363-365)
JobNames(p, S) ==
    CASE p = "copy"      -> S.src_not_flac_files \ S.dst_files
      [] p = "transcode" -> S.src_flac_files \ S.dst_format_files
      [] p = "tagsync"   -> S.src_flac_files \cap S.dst_format_files

JobIds(p, S) == { [kind |-> p, name |-> n] : n \in JobNames(p, S) }

RECURSIVE Enter(_, _, _)
\* where control is once phase p is reached: a loop over nothing and a map over
\* an empty list take no step
Enter(p, S, c) ==
    IF p \in LoopPhases
    THEN IF LoopSet(p, S, c) # {}
         THEN [pc |-> p, todo |-> LoopSet(p, S, c), new |-> {}]
         ELSE Enter(NextPhase(p), S, c)
    ELSE IF p \in JobPhases
    THEN IF JobIds(p, S) # {}
         THEN [pc |-> p, todo |-> {}, new |-> JobIds(p, S)]
         ELSE Enter(NextPhase(p), S, c)
    ELSE [pc |-> "done", todo |-> {}, new |-> {}]

Raise == [pc |-> "failed", todo |-> {}, new |-> {}]

\* control moves to nxt; a run that ends is recorded
Move(nxt) ==
    /\ pc' = nxt.pc
    /\ todo' = nxt.todo
    /\ runs' = IF nxt.pc \in {"done", "failed"} THEN Append(runs, nxt.pc) ELSE runs

\* the loop goes on with the rest of todo, or control moves past it
LoopOn(name, S) ==
    IF todo \ {name} # {}
    THEN [pc |-> pc, todo |-> todo \ {name}, new |-> {}]
    ELSE Enter(NextPhase(pc), S, cfg)

Dispatch(nxt) ==
    jobs' = [j \in DOMAIN jobs \cup nxt.new |-> IF j \in DOMAIN jobs THEN jobs[j] ELSE "pending"]

(***************************************************************************)
(* The destination file system                                             *)
(***************************************************************************)
Restrict(f, S) == [x \in S |-> f[x]]

Below(name, d) == d \in Ancestors(name)

\* the directories with the one that holds name modified now
Touched(dirs, name) ==
    IF dirname(name) \in DOMAIN dirs
    THEN [dirs EXCEPT ![dirname(name)] = now]
    ELSE dirs

\* every ancestor of name is a directory of the destination
ParentExists(dirs, name) ==
    dirname(name) = <<>> \/ dirname(name) \in DOMAIN dirs

TempName(final) == final \o <<"~">>

(***************************************************************************)
(* sync_paths up to the pool (lines 259-360)                               *)
(***************************************************************************)
Scan ==
    /\ pc = "scan"
    /\ LET sd    == scan_src_dirs(srcTree, SrcRoot, cfg)
           sf    == scan_src_files(srcTree, SrcRoot, cfg)
           flacs == { strip_ext(n) : n \in { n \in sf : is_flac(n) } }
           other == { n \in sf : ~is_flac(n) }
           mflac == { modified_flac_name(srcTree, n, cfg) : n \in flacs }
           mother == { modified_other_name(n, cfg) : n \in other }
           df    == DOMAIN dstFiles
           S     == [ src_dirs |-> sd, dst_dirs |-> DOMAIN dstDirs, dst_files |-> df,
                      src_flac_files |-> mflac,
                      src_as_format_files |->
                          { with_ext(n, cfg.format) : n \in mflac } \cup mother,
                      src_not_flac_files |-> mother,
                      dst_format_files |-> scan_dst_format_files(df, cfg.format) ]
       IN  IF RAISED \in sd \cup mflac \cup mother
           THEN /\ Move(Raise)
                /\ UNCHANGED <<scanVars, jobs>>
           ELSE \* a later file with the same modified_name replaces the earlier
                \* one in the map, in the order the set src_files is iterated
                \E fm \in [mflac -> flacs], om \in [mother -> other] :
                    /\ \A m \in mflac : modified_flac_name(srcTree, fm[m], cfg) = m
                    /\ \A m \in mother : modified_other_name(om[m], cfg) = m
                    /\ src_dirs' = S.src_dirs
                    /\ src_files' = sf
                    /\ dst_dirs' = S.dst_dirs
                    /\ dst_files' = S.dst_files
                    /\ src_flac_files' = S.src_flac_files
                    /\ src_flac_map_files' = fm
                    /\ src_as_format_files' = S.src_as_format_files
                    /\ src_not_flac_files' = S.src_not_flac_files
                    /\ src_not_flac_map_files' = om
                    /\ dst_format_files' = S.dst_format_files
                    /\ Move(Enter(NextPhase("scan"), S, cfg))
                    /\ Dispatch(Enter(NextPhase("scan"), S, cfg))
    /\ UNCHANGED <<inputVars, fsVars, now, failures, events, dst0, auxVars>>

\* a plausible slip: the comparison of line 329 written with >
is_stale_strict(src_mtime, dst_mtime) == src_mtime > dst_mtime

\* line 329, line 338
is_stale(src_mtime, dst_mtime) == src_mtime >= dst_mtime

\* a mutation of the destination: what was done, to which relative name, from
\* which source file, by which loop or job list, and the names safe_filename
\* was asserted on before it was done
Event(op, name, src, checked) ==
    [op |-> op, name |-> name, src |-> src, checked |-> checked, by |-> pc]

\* one iteration of the loop of lines 326-333
StaleFlac ==
    /\ pc = "stale_flac"
    /\ \E name \in todo :
          LET src_name == with_ext(src_flac_map_files[name], FLAC)
              dst_name == with_ext(name, cfg.format)
          IN  IF src_name \notin DOMAIN srcTree \/ dst_name \notin DOMAIN dstFiles
              THEN \* os.lstat raises FileNotFoundError
                   /\ Move(Raise)
                   /\ UNCHANGED <<fsVars, scanVars, jobs, events>>
              ELSE IF is_stale(srcTree[src_name].mtime, dstFiles[dst_name].mtime)
              THEN LET S == [CurScan EXCEPT
                                 !.dst_format_files = dst_format_files \ {name},
                                 !.dst_files = dst_files \ {dst_name}]
                   IN  /\ dstFiles' = Restrict(dstFiles, DOMAIN dstFiles \ {dst_name})
                       /\ dstDirs' = Touched(dstDirs, dst_name)
                       /\ dst_format_files' = S.dst_format_files
                       /\ dst_files' = S.dst_files
                       /\ events' = events \cup {Event("refresh", dst_name, src_name, {})}
                       /\ Move(LoopOn(name, S))
                       /\ Dispatch(LoopOn(name, S))
                       /\ UNCHANGED fixedScanVars
              ELSE /\ Move(LoopOn(name, CurScan))
                   /\ Dispatch(LoopOn(name, CurScan))
                   /\ UNCHANGED <<fsVars, scanVars, events>>
    /\ UNCHANGED <<inputVars, now, failures, dst0, auxVars>>

\* one iteration of the loop of lines 335-341
StaleOther ==
    /\ pc = "stale_other"
    /\ \E name \in todo :
          LET src_name == src_not_flac_map_files[name]
          IN  IF src_name \notin DOMAIN srcTree \/ name \notin DOMAIN dstFiles
              THEN /\ Move(Raise)
                   /\ UNCHANGED <<fsVars, scanVars, jobs, events>>
              ELSE IF is_stale(srcTree[src_name].mtime, dstFiles[name].mtime)
              THEN LET S == [CurScan EXCEPT !.dst_files = dst_files \ {name}]
                   IN  /\ dstFiles' = Restrict(dstFiles, DOMAIN dstFiles \ {name})
                       /\ dstDirs' = Touched(dstDirs, name)
                       /\ dst_files' = S.dst_files
                       /\ events' = events \cup {Event("refresh", name, src_name, {})}
                       /\ Move(LoopOn(name, S))
                       /\ Dispatch(LoopOn(name, S))
                       /\ UNCHANGED <<fixedScanVars, dst_format_files>>
              ELSE /\ Move(LoopOn(name, CurScan))
                   /\ Dispatch(LoopOn(name, CurScan))
                   /\ UNCHANGED <<fsVars, scanVars, events>>
    /\ UNCHANGED <<inputVars, now, failures, dst0, auxVars>>

\* one iteration of the loop of lines 343-346
DeleteFile ==
    /\ pc = "delete_files"
    /\ \E name \in todo :
          IF ~safe_filename(name) \/ name \notin DOMAIN dstFiles
          THEN /\ Move(Raise)
               /\ UNCHANGED <<fsVars, jobs, events>>
          ELSE /\ dstFiles' = Restrict(dstFiles, DOMAIN dstFiles \ {name})
               /\ dstDirs' = Touched(dstDirs, name)
               /\ events' = events \cup {Event("delete_file", name, <<>>, {name})}
               /\ Move(LoopOn(name, CurScan))
               /\ Dispatch(LoopOn(name, CurScan))
    /\ UNCHANGED <<inputVars, scanVars, now, failures, dst0, auxVars>>

\* shutil.rmtree(name, ignore_errors=True): the directory and all below it go,
\* and nothing happens when name is no directory
rmtree_files(files, dirs, name) ==
    IF name \in DOMAIN dirs
    THEN Restrict(files, {n \in DOMAIN files : ~Below(n, name)})
    ELSE files

rmtree_dirs(dirs, name) ==
    IF name \in DOMAIN dirs
    THEN Touched(Restrict(dirs, {d \in DOMAIN dirs : d # name /\ ~Below(d, name)}), name)
    ELSE dirs

\* one iteration of the loop of lines 348-351
DeleteDir ==
    /\ pc = "delete_dirs"
    /\ \E name \in todo :
          IF ~safe_filename(name)
          THEN /\ Move(Raise)
               /\ UNCHANGED <<fsVars, jobs, events>>
          ELSE /\ dstFiles' = rmtree_files(dstFiles, dstDirs, name)
               /\ dstDirs' = rmtree_dirs(dstDirs, name)
               /\ events' = events \cup {Event("delete_dir", name, <<>>, {name})}
               /\ Move(LoopOn(name, CurScan))
               /\ Dispatch(LoopOn(name, CurScan))
    /\ UNCHANGED <<inputVars, scanVars, now, failures, dst0, auxVars>>

\* os.makedirs(name, exist_ok=True) raises when name or a directory above it is a file
makedirs_raises(files, name) ==
    (Ancestors(name) \cup {name}) \cap DOMAIN files # {}

makedirs(dirs, name) ==
    LET made == (Ancestors(name) \cup {name}) \ DOMAIN dirs
        all  == [d \in DOMAIN dirs \cup made |-> IF d \in made THEN now ELSE dirs[d]]
    IN  [d \in DOMAIN all |->
            IF \E m \in made : dirname(m) = d THEN now ELSE all[d]]

\* one iteration of the loop of lines 353-356
CreateDir ==
    /\ pc = "create_dirs"
    /\ \E name \in todo :
          IF ~safe_filename(name) \/ makedirs_raises(dstFiles, name)
          THEN /\ Move(Raise)
               /\ UNCHANGED <<fsVars, jobs, events>>
          ELSE /\ dstDirs' = makedirs(dstDirs, name)
               /\ events' = events \cup {Event("create_dir", name, <<>>, {name})}
               /\ Move(LoopOn(name, CurScan))
               /\ Dispatch(LoopOn(name, CurScan))
               /\ UNCHANGED dstFiles
    /\ UNCHANGED <<inputVars, scanVars, now, failures, dst0, auxVars>>

\* one iteration of the loop of lines 358-360
RoundDir ==
    /\ pc = "round_dirs"
    /\ \E name \in todo :
          IF name \notin DOMAIN dstDirs
          THEN /\ Move(Raise)
               /\ UNCHANGED <<fsVars, jobs>>
          ELSE /\ dstDirs' = [dstDirs EXCEPT ![name] = round_mtime(dstDirs[name])]
               /\ Move(LoopOn(name, CurScan))
               /\ Dispatch(LoopOn(name, CurScan))
               /\ UNCHANGED dstFiles
    /\ UNCHANGED <<inputVars, scanVars, now, failures, events, dst0, auxVars>>

(***************************************************************************)
(* The jobs: copy_file (84-94), copy_flac (97-114), sync_flac (117-163)    *)
(***************************************************************************)
\* src_name as the job is given it
JobSrcName(j) ==
    IF j.kind = "copy" THEN src_not_flac_map_files[j.name] ELSE src_flac_map_files[j.name]

\* the source file the job reads
JobSrc(j) ==
    IF j.kind = "copy" THEN JobSrcName(j) ELSE with_ext(JobSrcName(j), FLAC)

\* the destination file the job publishes
JobFinal(j) ==
    IF j.kind = "copy" THEN j.name ELSE with_ext(j.name, cfg.format)

\* the asserts every job starts with (lines 87-88, 100-101, 119-120)
JobNamesSafe(j) == safe_filename(JobSrcName(j)) /\ safe_filename(j.name)

JobChecked(j) == {JobSrcName(j), j.name}

Finished == {"done", "failed", "skipped"}

\* every job of the list being mapped has ended
ListOver(js) == \A j \in DOMAIN js : j.kind = pc => js[j] \in Finished

\* a plausible slip: the outcome of the jobs is dropped (map_async without get)
AfterJob_IgnoreFailure(js) ==
    IF ~ListOver(js) THEN [pc |-> pc, todo |-> {}, new |-> {}]
    ELSE Enter(NextPhase(pc), CurScan, cfg)

\* p.map returns when every job of the list has ended, and raises when one failed
AfterJob(js) ==
    IF ~ListOver(js) THEN [pc |-> pc, todo |-> {}, new |-> {}]
    ELSE IF \E j \in DOMAIN js : j.kind = pc /\ js[j] = "failed" THEN Raise
    ELSE Enter(NextPhase(pc), CurScan, cfg)

JobsMove(js) ==
    /\ Move(AfterJob(js))
    /\ jobs' = [j \in DOMAIN js \cup AfterJob(js).new |->
                   IF j \in DOMAIN js THEN js[j] ELSE "pending"]

JobTo(j, st) == JobsMove([jobs EXCEPT ![j] = st])

ReplayGainKeys ==
    {"replaygain_track_gain", "replaygain_track_peak",
     "replaygain_album_gain", "replaygain_album_peak"}

\* the keys EasyID3 knows, among the keys the model's tags use
EasyID3Keys == {"TITLE", "TRACKNUMBER", "DISCNUMBER"} \cup ReplayGainKeys

\* a plausible slip: the loop of lines 130-136 is left out
src_m_tags_Unfiltered(tags, format) == tags

\* src_m.tags after lines 130-136
src_m_tags(tags, format) ==
    IF format = MP3 THEN {kv \in tags : kv[1] \in EasyID3Keys} ELSE tags

\* src_tags and dst_tags after lines 140-149
compared_tags(tags, format) ==
    IF format = MP3 THEN {kv \in tags : kv[1] \notin ReplayGainKeys} ELSE tags

\* cp or the encoder starts and creates the temporary file (lines 89-91, 103-110)
JobBegin(j) ==
    /\ j.kind \in {"copy", "transcode"}
    /\ j.kind = pc
    /\ jobs[j] = "pending"
    /\ LET temp == TempName(JobFinal(j))
       IN  IF \/ ~JobNamesSafe(j)
              \/ j.kind = "transcode" /\ cfg.format \notin {OGG, MP3}
              \/ JobSrc(j) \notin DOMAIN srcTree
              \/ ~ParentExists(dstDirs, temp)
              \/ temp \in DOMAIN dstDirs
           THEN /\ JobTo(j, "failed")
                /\ UNCHANGED <<fsVars, events>>
           ELSE /\ dstFiles' =
                      [n \in DOMAIN dstFiles \cup {temp} |->
                          IF n = temp THEN [mtime |-> now, whole |-> FALSE, tags |-> NoTags]
                          ELSE dstFiles[n]]
                /\ dstDirs' = Touched(dstDirs, temp)
                /\ events' = events \cup
                      {Event(j.kind, JobFinal(j), JobSrc(j), JobChecked(j))}
                /\ JobTo(j, "writing")
    /\ UNCHANGED <<inputVars, scanVars, now, failures, dst0, auxVars>>

\* cp or the encoder ends with status 0: the temporary file is complete
JobWrite(j) ==
    /\ j.kind = pc
    /\ jobs[j] = "writing"
    /\ dstFiles' = [dstFiles EXCEPT ![TempName(JobFinal(j))] =
                        [mtime |-> now, whole |-> TRUE, tags |-> NoTags]]
    /\ JobTo(j, "written")
    /\ UNCHANGED <<inputVars, dstDirs, scanVars, now, failures, events, dst0, auxVars>>

\* cp, the encoder or the tag writer fails: check=True raises, the temporary file stays
JobCommandFails(j) ==
    /\ j.kind = pc
    /\ jobs[j] \in {"writing", "retag_writing"}
    /\ failures < MaxFailures
    /\ failures' = failures + 1
    /\ JobTo(j, "failed")
    /\ UNCHANGED <<inputVars, fsVars, scanVars, now, events, dst0, auxVars>>

\* a plausible slip: the data is written under the final name
publish_in_place(files, final) ==
    [n \in DOMAIN files \cup {final} |->
        IF n = final THEN [files[TempName(final)] EXCEPT !.whole = FALSE] ELSE files[n]]

\* os.rename(temp, final) (lines 92, 106, 111, 160)
publish(files, final) ==
    [n \in (DOMAIN files \ {TempName(final)}) \cup {final} |->
        IF n = final THEN files[TempName(final)] ELSE files[n]]

JobRename(j) ==
    /\ j.kind = pc
    /\ jobs[j] = "written"
    /\ IF JobFinal(j) \in DOMAIN dstDirs
       THEN \* IsADirectoryError
            /\ JobTo(j, "failed")
            /\ UNCHANGED fsVars
       ELSE /\ dstFiles' = publish(dstFiles, JobFinal(j))
            /\ dstDirs' = Touched(dstDirs, JobFinal(j))
            /\ JobTo(j, IF j.kind = "copy" /\ ~cfg.fat THEN "done" ELSE "renamed")
    /\ UNCHANGED <<inputVars, scanVars, now, failures, events, dst0, auxVars>>

\* sync_flac up to the cp of line 156
SyncBegin(j) ==
    /\ j.kind = pc
    /\ \/ j.kind = "tagsync" /\ jobs[j] = "pending"
       \/ j.kind = "transcode" /\ jobs[j] = "renamed"
    /\ LET final == JobFinal(j)
           temp  == TempName(final)
       IN  IF \/ ~JobNamesSafe(j)
              \/ JobSrc(j) \notin DOMAIN srcTree
              \/ cfg.format \notin {OGG, MP3}
              \/ final \notin DOMAIN dstFiles
           THEN /\ JobTo(j, "failed")
                /\ UNCHANGED <<fsVars, events>>
           ELSE IF compared_tags(src_m_tags(srcTree[JobSrc(j)].tags, cfg.format), cfg.format)
                       = compared_tags(dstFiles[final].tags, cfg.format)
           THEN /\ JobTo(j, IF cfg.fat THEN "synced" ELSE "done")
                /\ UNCHANGED <<fsVars, events>>
           ELSE IF temp \in DOMAIN dstDirs
           THEN /\ JobTo(j, "failed")
                /\ UNCHANGED <<fsVars, events>>
           ELSE /\ dstFiles' =
                      [n \in DOMAIN dstFiles \cup {temp} |->
                          IF n = temp THEN [mtime |-> now, whole |-> FALSE, tags |-> NoTags]
                          ELSE dstFiles[n]]
                /\ dstDirs' = Touched(dstDirs, temp)
                /\ events' = events \cup {Event("tag", final, JobSrc(j), JobChecked(j))}
                /\ JobTo(j, "retag_writing")
    /\ UNCHANGED <<inputVars, scanVars, now, failures, dst0, auxVars>>

\* the cp of line 156 ends and dst_m.save writes the tags into the copy (line 159)
SyncWrite(j) ==
    /\ j.kind = pc
    /\ jobs[j] = "retag_writing"
    /\ dstFiles' = [dstFiles EXCEPT ![TempName(JobFinal(j))] =
                        [mtime |-> now, whole |-> TRUE,
                         tags  |-> src_m_tags(srcTree[JobSrc(j)].tags, cfg.format)]]
    /\ JobTo(j, "retag_written")
    /\ UNCHANGED <<inputVars, dstDirs, scanVars, now, failures, events, dst0, auxVars>>

\* line 160
SyncRename(j) ==
    /\ j.kind = pc
    /\ jobs[j] = "retag_written"
    /\ dstFiles' = publish(dstFiles, JobFinal(j))
    /\ dstDirs' = Touched(dstDirs, JobFinal(j))
    /\ JobTo(j, IF cfg.fat THEN "synced" ELSE "done")
    /\ UNCHANGED <<inputVars, scanVars, now, failures, events, dst0, auxVars>>

\* round_mtime on the published file (lines 93-94, 162-163)
JobRound(j) ==
    /\ j.kind = pc
    /\ cfg.fat
    /\ \/ j.kind = "copy" /\ jobs[j] = "renamed"
       \/ jobs[j] = "synced"
    /\ dstFiles' = [dstFiles EXCEPT ![JobFinal(j)].mtime = round_mtime(@)]
    /\ JobTo(j, "done")
    /\ UNCHANGED <<inputVars, dstDirs, scanVars, now, failures, events, dst0, auxVars>>

\* a job that shares its chunk with a job that raised is never called
JobSkipped(j) ==
    /\ j.kind = pc
    /\ jobs[j] = "pending"
    /\ \E k \in DOMAIN jobs : k.kind = pc /\ jobs[k] = "failed"
    /\ JobTo(j, "skipped")
    /\ UNCHANGED <<inputVars, fsVars, scanVars, now, failures, events, dst0, auxVars>>

Worker ==
    \E j \in DOMAIN jobs :
        \/ JobBegin(j)
        \/ JobWrite(j)
        \/ JobCommandFails(j)
        \/ JobRename(j)
        \/ SyncBegin(j)
        \/ SyncWrite(j)
        \/ SyncRename(j)
        \/ JobRound(j)
        \/ JobSkipped(j)

\* the program is started again on the same trees
StartRun ==
    /\ pc \in {"done", "failed"}
    /\ Len(runs) < MaxRuns
    /\ pc' = "scan"
    /\ src_dirs' = {}
    /\ src_files' = {}
    /\ dst_dirs' = {}
    /\ dst_files' = {}
    /\ src_flac_files' = {}
    /\ src_flac_map_files' = EmptyFn
    /\ src_as_format_files' = {}
    /\ src_not_flac_files' = {}
    /\ src_not_flac_map_files' = EmptyFn
    /\ dst_format_files' = {}
    /\ todo' = {}
    /\ jobs' = EmptyFn
    /\ events' = {}
    /\ dst0' = dstFiles
    /\ UNCHANGED <<inputVars, fsVars, now, runs, failures, auxVars>>

\* time passes between two runs; a run falls within one tick of the clock
Tick ==
    /\ pc \in {"done", "failed"}
    /\ now < MaxTime
    /\ now' = now + 1
    /\ UNCHANGED <<cfg, srcTree, dstFiles, dstDirs, pc, runs, scanVars, todo, jobs,
                   failures, events, dst0, auxVars>>

Next ==
    \/ Scan
    \/ StaleFlac
    \/ StaleOther
    \/ DeleteFile
    \/ DeleteDir
    \/ CreateDir
    \/ RoundDir
    \/ Worker
    \/ StartRun
    \/ Tick

Spec == Init /\ [][Next]_vars

(***************************************************************************)
(* Specification SafeNameSpec: safe_filename called on every name of at    *)
(* most MaxNameLen characters over NameChars.                              *)
(***************************************************************************)
MaxNameLen == 4

NameChars == {"/", ".", "a"}

BoundedNames ==
    UNION {[1..n -> NameChars] : n \in 0..MaxNameLen}

\* no run of sync_paths is followed: its variables stay as they are
NoRun ==
    /\ cfg = Default
    /\ srcTree = EmptyFn
    /\ dstFiles = EmptyFn
    /\ dstDirs = EmptyFn
    /\ now = Now0
    /\ pc = "idle"
    /\ runs = <<>>
    /\ EmptyScan
    /\ todo = {}
    /\ jobs = EmptyFn
    /\ failures = 0
    /\ events = {}
    /\ dst0 = EmptyFn

SafeNameInit ==
    /\ NoRun
    /\ SfIdle
    /\ RmIdle
    /\ WkIdle
    /\ AcIdle

CallSafeFilename ==
    \E name \in BoundedNames :
        /\ sfName' = name
        /\ sfResult' = <<safe_filename(name)>>
        /\ UNCHANGED <<mainVars, rmVars, wkVars, acVars>>

SafeNameNext == CallSafeFilename

SafeNameSpec == SafeNameInit /\ [][SafeNameNext]_vars

(***************************************************************************)
(* Specification RoundSpec: round_mtime called, up to MaxRoundCalls times, *)
(* on a file with any st_atime up to MaxATime and any st_mtime up to       *)
(* MaxMTime ticks.                                                         *)
(***************************************************************************)
MaxMTime == 17
MaxATime == 3
MaxRoundCalls == 2

RoundInit ==
    /\ NoRun
    /\ SfIdle
    /\ WkIdle
    /\ AcIdle
    /\ rmStat \in [st_atime : 0..MaxATime, st_mtime : 0..MaxMTime]
    /\ rmStat0 = rmStat
    /\ rmCalls = 0

CallRoundMtime ==
    /\ rmCalls < MaxRoundCalls
    /\ rmStat' = round_mtime_stat(rmStat)
    /\ rmCalls' = rmCalls + 1
    /\ UNCHANGED <<mainVars, sfVars, wkVars, acVars, rmStat0>>

RoundNext == CallRoundMtime

RoundSpec == RoundInit /\ [][RoundNext]_vars

(***************************************************************************)
(* Specification WalkSpec: the loop of lines 269-278, one iteration to a   *)
(* step, for one file os.walk(src) yields, with src given with and without *)
(* a trailing "/".  A loop that does not end is followed for MaxWalkSteps   *)
(* iterations.                                                             *)
(***************************************************************************)
MaxWalkDepth == 2
MaxWalkSteps == 5

\* the forms of the src argument that name the directory SrcRoot
SrcForms == {SrcRoot, SrcRoot \o <<"/">>}

WalkPolicies ==
    {Default, [Default EXCEPT !.rewrite = TRUE], [Default EXCEPT !.android = TRUE]}

WalkDirNames == {<<"A">>, <<"B", ".">>}

RECURSIVE WalkRoots(_, _)
\* root of line 264: top itself, and os.path.join(root, d) for the directories
\* below it, down to depth n
WalkRoots(top, n) ==
    IF n = 0 THEN {top}
    ELSE {top} \cup UNION { WalkRoots(pathjoin(top, d), n - 1) : d \in WalkDirNames }

\* name of line 266, for the files that pass line 267
WalkNames(src, c) ==
    { n \in { pathjoin(r, <<"x", ".">> \o FLAC) : r \in WalkRoots(src, MaxWalkDepth) } :
          filter_file(n, c.no_extra) /\ has_access(n) }

WalkInit ==
    /\ NoRun
    /\ SfIdle
    /\ RmIdle
    /\ AcIdle
    /\ wkSrc \in SrcForms
    /\ wkCfg \in WalkPolicies
    /\ wkName \in WalkNames(wkSrc, wkCfg)
    /\ wkDir = dirname(wkName)
    /\ wkDirs = {}
    /\ wkPc = "walk"
    /\ wkSteps = 0

\* one iteration of the loop (lines 270-278)
WalkStep ==
    /\ wkPc = "walk"
    /\ wkDir # wkSrc
    /\ wkSteps < MaxWalkSteps
    /\ wkSteps' = wkSteps + 1
    /\ LET m == modified_dirname(relpath(wkDir, wkSrc), wkCfg)
       IN  IF m = RAISED
           THEN /\ wkPc' = "raised"
                /\ UNCHANGED <<wkDir, wkDirs>>
           ELSE /\ wkDirs' = wkDirs \cup {m}
                /\ wkDir' = dirname(wkDir)
                /\ wkPc' = "walk"
    /\ UNCHANGED <<mainVars, sfVars, rmVars, acVars, wkSrc, wkName, wkCfg>>

\* walk_dir == src: the loop is over (line 269)
WalkEnd ==
    /\ wkPc = "walk"
    /\ wkDir = wkSrc
    /\ wkPc' = "walked"
    /\ UNCHANGED <<mainVars, sfVars, rmVars, acVars, wkSrc, wkName, wkCfg, wkDir, wkDirs,
                   wkSteps>>

WalkNext == WalkStep \/ WalkEnd

WalkSpec == WalkInit /\ [][WalkNext]_vars

(***************************************************************************)
(* Specification AccessSpec: _has_access (lines 213-257) with a user, on a *)
(* file system of one shape whose directories and files take every mode of *)
(* DirModes and FileModes and every owner of Owners.  A path is a string,  *)
(* a mode the set of its permission bits, each a pair such as              *)
(* <<"R", "USR">> for S_IRUSR.                                             *)
(***************************************************************************)
\* pwnam.pw_uid and the groups of line 211
uid == 1
groups == {1}

mode_bits(u, g, o) ==
    {<<b, "USR">> : b \in u} \cup {<<b, "GRP">> : b \in g} \cup {<<b, "OTH">> : b \in o}

\* 0755, 0711, 0750 and 0070
DirModes ==
    { mode_bits({"R", "X"}, {"R", "X"}, {"R", "X"}), mode_bits({"R", "X"}, {"X"}, {"X"}),
      mode_bits({"R", "X"}, {"R", "X"}, {}), mode_bits({}, {"R", "X"}, {}) }

\* 0644, 0640 and 0040
FileModes ==
    { mode_bits({"R"}, {"R"}, {"R"}), mode_bits({"R"}, {"R"}, {}), mode_bits({}, {"R"}, {}) }

\* the user's own, of a group of the user, of neither
Owners ==
    { [st_uid |-> 1, st_gid |-> 2], [st_uid |-> 2, st_gid |-> 1], [st_uid |-> 2, st_gid |-> 2] }

Entry(type, owner, mode, target) ==
    [type |-> type, st_uid |-> owner.st_uid, st_gid |-> owner.st_gid, st_mode |-> mode,
     target |-> target]

\* /m is the source root; /m/A/l is a symbolic link to the file /oo/g and /m/L
\* a symbolic link to the directory /oo, both outside the root
AccessTrees ==
    { (<<"/">> :> Entry("dir", ow, mode_bits({"R", "X"}, {"R", "X"}, {"R", "X"}), <<>>))
      @@ (<<"/", "m">> :> Entry("dir", ow, dm[1], <<>>))
      @@ (<<"/", "m", "/", "A">> :> Entry("dir", ow, dm[2], <<>>))
      @@ (<<"/", "m", "/", "A", "/", "f">> :> Entry("file", ow, fm[1], <<>>))
      @@ (<<"/", "m", "/", "A", "/", "l">> :> Entry("link", ow, {}, <<"/", "o", "o", "/", "g">>))
      @@ (<<"/", "m", "/", "L">> :> Entry("link", ow, {}, <<"/", "o", "o">>))
      @@ (<<"/", "o", "o">> :> Entry("dir", ow, dm[3], <<>>))
      @@ (<<"/", "o", "o", "/", "g">> :> Entry("file", ow, fm[2], <<>>))
      : ow \in Owners, dm \in [1..3 -> DirModes], fm \in [1..2 -> FileModes] }

\* the names line 267 asks about: a file, a link to a file, a file in a linked
\* directory, and a file that has gone since os.walk listed it
AccessQueries ==
    { <<"/", "m", "/", "A", "/", "f">>, <<"/", "m", "/", "A", "/", "l">>,
      <<"/", "m", "/", "L", "/", "g">>, <<"/", "m", "/", "A", "/", "n">> }

RECURSIVE realdir(_, _)
\* the directory the kernel reaches by the name d, links followed
realdir(fs, d) ==
    IF d = <<"/">> THEN d
    ELSE LET e == pathjoin(realdir(fs, dirname(d)), basename(d))
         IN  IF e \in DOMAIN fs /\ fs[e].type = "link"
             THEN realdir(fs, pathjoin(dirname(e), fs[e].target))
             ELSE e

\* os.lstat(path) (lines 226-230): <<st>>, or <<>> for FileNotFoundError
lstat(fs, path) ==
    LET e == IF path = <<"/">> THEN path
             ELSE pathjoin(realdir(fs, dirname(path)), basename(path))
    IN  IF e \in DOMAIN fs THEN <<fs[e]>> ELSE <<>>

\* the permission class of lines 235, 240, 245 and 251, 253, 255
perm_class(st) ==
    IF st.st_uid = uid THEN "USR" ELSE IF st.st_gid \in groups THEN "GRP" ELSE "OTH"

\* lines 234-256: what is stored for a directory or a file
entry_access(st, path, src, target) ==
    IF st.type = "dir"
    THEN IF target \/ Len(path) <= Len(src)
         THEN <<"X", perm_class(st)>> \in st.st_mode
         ELSE {<<"R", perm_class(st)>>, <<"X", perm_class(st)>>} \subseteq st.st_mode
    ELSE <<"R", perm_class(st)>> \in st.st_mode

RECURSIVE has_access_as(_, _, _, _)
\* _has_access(path, target) with a user.  The test of line 217 looks a string
\* up among keys that are pairs and is never true, so nothing is answered from
\* the access dictionary.
has_access_as(fs, src, path, target) ==
    IF dirname(path) # path /\ ~has_access_as(fs, src, dirname(path), target)
    THEN FALSE
    ELSE LET st == lstat(fs, path)
         IN  IF st = <<>> THEN FALSE
             ELSE IF st[1].type = "link"
             THEN has_access_as(fs, src, pathjoin(dirname(path), st[1].target), TRUE)
             ELSE entry_access(st[1], path, src, target)

AccessInit ==
    /\ NoRun
    /\ SfIdle
    /\ RmIdle
    /\ WkIdle
    /\ acFs \in AccessTrees
    /\ acPath = <<>>
    /\ acResult = <<>>

\* line 267: _has_access(name)
CallHasAccess ==
    \E path \in AccessQueries :
        /\ acPath' = path
        /\ acResult' = <<has_access_as(acFs, SrcRoot, path, FALSE)>>
        /\ UNCHANGED <<mainVars, sfVars, rmVars, wkVars, acFs>>

AccessNext == CallHasAccess

AccessSpec == AccessInit /\ [][AccessNext]_vars

(***************************************************************************)
(* What a run is expected to leave behind, computed from the source tree   *)
(* and the arguments alone                                                 *)
(***************************************************************************)
\* the source files the scan accepts, relative to the source root
AcceptedNames ==
    { n \in DOMAIN srcTree : filter_file(pathjoin(SrcRoot, n), cfg.no_extra) }

\* the destination name of the accepted source file n
LogicalName(n) ==
    IF is_flac(n)
    THEN LET m == modified_flac_name(srcTree, strip_ext(n), cfg)
         IN  IF m = RAISED THEN RAISED ELSE with_ext(m, cfg.format)
    ELSE modified_other_name(n, cfg)

LogicalNames == { LogicalName(n) : n \in AcceptedNames }

RequiredDirs ==
    { modified_dirname(d, cfg) : d \in UNION { Ancestors(n) : n \in AcceptedNames } }

\* two accepted source files share a logical name
Collision ==
    \E a, b \in AcceptedNames : a # b /\ LogicalName(a) = LogicalName(b)

\* the number of the run in progress, or of the run that has just ended
RunIndex == IF pc \in {"done", "failed"} THEN Len(runs) ELSE Len(runs) + 1

\* the run before this one ended without an error
PreviousRunDone == RunIndex >= 2 /\ runs[RunIndex - 1] = "done"

Ops(which) == { e \in events : e.op \in which }

(***************************************************************************)
(* C1                                                                      *)
(***************************************************************************)
\* C1: when a run ends without an error and no two accepted source files share
\* a logical name, the files of the destination are exactly the logical names
\* of the accepted source files and its directories are exactly the normalized
\* ancestors of the accepted files, whatever the destination held before.
C1_MirrorPostCondition ==
    (pc = "done" /\ ~Collision) =>
        /\ DOMAIN dstFiles = LogicalNames
        /\ DOMAIN dstDirs = RequiredDirs

\* a run has ended well that had a file to transcode, and an orphan file and a
\* directory to remove
C1_Witness ==
    /\ pc = "done"
    /\ ~Collision
    /\ Ops({"transcode"}) # {}
    /\ Ops({"delete_dir"}) # {}
    /\ DOMAIN dst0 \ LogicalNames # {}

(***************************************************************************)
(* C2                                                                      *)
(***************************************************************************)
ChangeOps == {"copy", "transcode", "refresh", "delete_file", "delete_dir", "create_dir"}

\* C2 as stated, for the source trees in which no two files share a logical
\* name: a run that follows a run that ended without an error, on the same
\* source tree, creates no file, deletes no file for refresh, deletes no orphan
\* file, and removes and creates no directory.
C2_Idempotence ==
    (PreviousRunDone /\ ~Collision) => Ops(ChangeOps) = {}

\* when this run started, every accepted source file was strictly older than
\* the destination file at its logical name
SourcesOlder ==
    \A n \in AcceptedNames :
        LogicalName(n) \in DOMAIN dst0 => srcTree[n].mtime < dst0[LogicalName(n)].mtime

\* C2 as amended: a run that follows a run that ended without an error, on the
\* same source tree, performs no creation, refresh or deletion provided every
\* accepted source file is strictly older than the destination file at its
\* logical name when the run starts.
C2_IdempotenceWhenOlder ==
    (PreviousRunDone /\ SourcesOlder) => Ops(ChangeOps) = {}

\* a second run has ended after tag-sync jobs on files the first run left
C2_Witness ==
    /\ PreviousRunDone
    /\ SourcesOlder
    /\ pc = "done"
    /\ \E j \in DOMAIN jobs : j.kind = "tagsync" /\ jobs[j] = "done"
    /\ \E n \in AcceptedNames : ~is_flac(n)

(***************************************************************************)
(* C3                                                                      *)
(***************************************************************************)
\* the files the destination had when the run started and has no longer
Deleted == DOMAIN dst0 \ DOMAIN dstFiles

Orphans == DOMAIN dst0 \ LogicalNames

\* f is the logical name of an accepted source file, and none of the source
\* files with that logical name is as new as the file the destination had
FreshAtStart(f) ==
    /\ \E n \in AcceptedNames : LogicalName(n) = f
    /\ \A n \in AcceptedNames : LogicalName(n) = f => srcTree[n].mtime < dst0[f].mtime

NotStaleKept ==
    \A f \in DOMAIN dst0 : FreshAtStart(f) => f \in DOMAIN dstFiles

MappedSources(f) ==
    { with_ext(src_flac_map_files[m], FLAC) :
          m \in { m \in src_flac_files : with_ext(m, cfg.format) = f } }
    \cup { src_not_flac_map_files[m] : m \in { m \in src_not_flac_files : m = f } }

\* the scan and both staleness loops have ended without an error
StalenessDecided ==
    pc \in {"delete_files", "delete_dirs", "create_dirs", "round_dirs",
            "copy", "transcode", "tagsync", "done"}

Refreshed(f) == \E e \in Ops({"refresh"}) : e.name = f

\* C4: once the staleness loops are over, a destination file that the maps pair
\* with a source file has been deleted for refresh if and only if the source's
\* modification time was greater than or equal to the destination's.
C4_StalenessRule ==
    StalenessDecided =>
        \A f \in DOMAIN dst0 :
            MappedSources(f) # {} =>
                (Refreshed(f) <=> \E s \in MappedSources(f) :
                                      srcTree[s].mtime >= dst0[f].mtime)

\* the loops are over: a file with the timestamp of its source was deleted for
\* refresh, and a file newer than its source was kept
C4_Witness ==
    /\ StalenessDecided
    /\ \E f \in DOMAIN dst0 :
          /\ Refreshed(f)
          /\ \E s \in MappedSources(f) : srcTree[s].mtime = dst0[f].mtime
    /\ \E f \in DOMAIN dst0 :
          /\ MappedSources(f) # {}
          /\ ~Refreshed(f)
          /\ f \in DOMAIN dstFiles

(***************************************************************************)
(* C5                                                                      *)
(***************************************************************************)
IsTempName(n) == endswith(n, <<"~">>)

\* the step renames a complete temporary file to n
RenamedInto(n) ==
    /\ TempName(n) \in DOMAIN dstFiles
    /\ dstFiles[TempName(n)].whole
    /\ TempName(n) \notin DOMAIN dstFiles'
    /\ dstFiles'[n] = dstFiles[TempName(n)]

\* the step changes nothing of n but its modification time
OnlyTouched(n) ==
    /\ n \in DOMAIN dstFiles
    /\ dstFiles'[n] = [dstFiles[n] EXCEPT !.mtime = dstFiles'[n].mtime]

\* C5: in every state a file at a name that is no temporary name is complete,
\* and a step writes data under a temporary name only: a file appears or
\* changes at another name only by the rename of a complete temporary file.
C5_AtomicPublication ==
    /\ [](\A n \in DOMAIN dstFiles : ~IsTempName(n) => dstFiles[n].whole)
    /\ [][\A n \in DOMAIN dstFiles' :
              (n \notin DOMAIN dstFiles \/ dstFiles'[n] # dstFiles[n]) =>
                  IsTempName(n) \/ RenamedInto(n) \/ OnlyTouched(n)]_vars

\* a run has failed while a job was writing: its temporary file is partial, and
\* the file another job published is in place
C5_Witness ==
    /\ pc = "failed"
    /\ \E j \in DOMAIN jobs :
          /\ jobs[j] = "failed"
          /\ TempName(JobFinal(j)) \in DOMAIN dstFiles
          /\ ~dstFiles[TempName(JobFinal(j))].whole
    /\ \E k \in DOMAIN jobs : jobs[k] = "done" /\ JobFinal(k) \in DOMAIN dstFiles

(***************************************************************************)
(* C6                                                                      *)
(***************************************************************************)
\* C6: when two accepted source files share a logical name the run does not
\* end without an error, and no destination file is written from two
\* different source files.
C6_CollisionDetection ==
    Collision =>
        /\ pc # "done"
        /\ \A e, f \in Ops({"copy", "transcode"}) : e.name = f.name => e.src = f.src

(***************************************************************************)
(* C7                                                                      *)
(***************************************************************************)
\* C7: every mutation of the destination a run has performed was preceded by a
\* safe_filename check of the relative names it uses, and the check held.
C7_ValidateBeforeMutate ==
    \A e \in events :
        /\ e.checked # {}
        /\ \A n \in e.checked : safe_filename(n)

(***************************************************************************)
(* C9                                                                      *)
(***************************************************************************)
JobRank(kind) ==
    CASE kind = "copy"      -> 5
      [] kind = "transcode" -> 6
      [] kind = "tagsync"   -> 7

\* the place of a mutation in the documented order; the tag rewrite that ends
\* a transcode job belongs to that job
MutationRank(e) ==
    CASE e.op = "refresh"     -> 1
      [] e.op = "delete_file" -> 2
      [] e.op = "delete_dir"  -> 3
      [] e.op = "create_dir"  -> 4
      [] e.op = "copy"        -> 5
      [] e.op = "transcode"   -> 6
      [] e.op = "tag"         -> IF e.by = "transcode" THEN 6 ELSE 7

\* C9: a mutation starts only after every mutation of the run so far belongs to
\* the same or an earlier phase of the order staleness deletions, orphan file
\* deletions, directory deletions, directory creations, copy, transcode,
\* tag-sync, and after every job of an earlier job list has ended.
C9_PhaseOrdering ==
    [][\A e \in events' \ events :
           /\ \A f \in events : MutationRank(f) <= MutationRank(e)
           /\ \A k \in DOMAIN jobs :
                  JobRank(k.kind) < MutationRank(e) => jobs[k] \in Finished]_vars

\* two jobs of one list are writing at the same time, after deletions
C9_Witness ==
    /\ \E j, k \in DOMAIN jobs :
          j # k /\ j.kind = k.kind /\ jobs[j] = "writing" /\ jobs[k] = "writing"
    /\ Ops({"refresh"}) # {}
    /\ Ops({"delete_file"}) # {}

(***************************************************************************)
(* C10                                                                     *)
(***************************************************************************)
\* C10: once a job has failed the run is in that job's list or has failed, it
\* has failed as soon as every job of the list has ended, no job of a later
\* list is ever handed to the pool, and the file of every job that completed
\* is in place and complete.
C10_FailurePropagation ==
    \A j \in DOMAIN jobs :
        jobs[j] = "failed" =>
            /\ pc \in {j.kind, "failed"}
            /\ (\A k \in DOMAIN jobs : k.kind = j.kind => jobs[k] \in Finished)
                   => pc = "failed"
            /\ \A k \in DOMAIN jobs : JobRank(k.kind) <= JobRank(j.kind)
            /\ \A k \in DOMAIN jobs :
                   jobs[k] = "done" =>
                       /\ JobFinal(k) \in DOMAIN dstFiles
                       /\ dstFiles[JobFinal(k)].whole

\* a run has failed in the transcode list after a copy job published its file
C10_Witness ==
    /\ pc = "failed"
    /\ \E j, k \in DOMAIN jobs :
          /\ jobs[j] = "failed"
          /\ jobs[k] = "done"
          /\ JobRank(k.kind) < JobRank(j.kind)

(***************************************************************************)
(* C8                                                                      *)
(***************************************************************************)
Segments(name) == split(name, "/")

HasDotSegment(name) ==
    \E i \in 1..Len(Segments(name)) : Segments(name)[i] \in {<<".">>, <<".", ".">>}

\* C8: safe_filename(name) is false when name begins with / or has a segment
\* equal to . or .. in any position, the whole name included, and true for
\* every other name whose last segment is not empty.
C8_SafeNameCheck ==
    sfResult # <<>> =>
        IF startswith(sfName, <<"/">>) \/ HasDotSegment(sfName)
        THEN sfResult = <<FALSE>>
        ELSE Segments(sfName)[Len(Segments(sfName))] # <<>> => sfResult = <<TRUE>>

(***************************************************************************)
(* C11                                                                     *)
(***************************************************************************)
\* C11, for the source trees in which no two files share a logical name: once
\* a copy or transcode job has failed, at whichever of its steps, no file is at
\* the job's final destination name.
C11_RetryByReRun ==
    ~Collision =>
        \A j \in DOMAIN jobs :
            (j.kind \in {"copy", "transcode"} /\ jobs[j] = "failed") =>
                JobFinal(j) \notin DOMAIN dstFiles

(***************************************************************************)
(* C12                                                                     *)
(***************************************************************************)
\* the destination paths job j writes
JobPaths(j) == {JobFinal(j), TempName(JobFinal(j))}

\* C12: two distinct jobs a run has handed to the pool, of one list or of two,
\* write no destination path in common, final or temporary.
C12_DisjointJobTargets ==
    \A j, k \in DOMAIN jobs : j # k => JobPaths(j) \cap JobPaths(k) = {}

(***************************************************************************)
(* C13  Round-trip tagging                                                 *)
(***************************************************************************)
\* the jobs whose sync_flac has returned
Synced ==
    {j \in DOMAIN jobs :
        j.kind \in {"transcode", "tagsync"} /\ jobs[j] \in {"synced", "done"}}

WithoutGain(tags) == {kv \in tags : kv[1] \notin ReplayGainKeys}

\* the pairs of a source mapping the destination format can hold
Representable(tags) ==
    IF cfg.format = MP3 THEN {kv \in tags : kv[1] \in EasyID3Keys} ELSE tags

\* the comparison of line 151 finds job j's two mappings equal
TagsAlreadyEqual(j) ==
    /\ j.kind = pc
    /\ \/ j.kind = "tagsync" /\ jobs[j] = "pending"
       \/ j.kind = "transcode" /\ jobs[j] = "renamed"
    /\ JobSrc(j) \in DOMAIN srcTree
    /\ JobFinal(j) \in DOMAIN dstFiles
    /\ compared_tags(src_m_tags(srcTree[JobSrc(j)].tags, cfg.format), cfg.format)
           = compared_tags(dstFiles[JobFinal(j)].tags, cfg.format)

\* a step of a job whose mappings are already equal leaves every destination
\* file as it is
NotRewrittenWhenEqual ==
    \A j \in DOMAIN jobs :
        (TagsAlreadyEqual(j) /\ j \in DOMAIN jobs' /\ jobs'[j] # jobs[j]) =>
            (dstFiles' = dstFiles /\ jobs'[j] # "retag_writing")

\* C13 as stated: once sync_flac has returned for a job, the destination
\* file's tag mapping equals the source file's, the gain keys left out for mp3
\* being the only keys ignored; and a job whose mappings are already equal
\* rewrites nothing.
C13_RoundTripTagging ==
    /\ [](\A j \in Synced :
            IF cfg.format = MP3
            THEN WithoutGain(dstFiles[JobFinal(j)].tags)
                     = WithoutGain(srcTree[JobSrc(j)].tags)
            ELSE dstFiles[JobFinal(j)].tags = srcTree[JobSrc(j)].tags)
    /\ [][NotRewrittenWhenEqual]_vars

\* C13, amended: once sync_flac has returned for a job, the destination file's
\* tag mapping equals the source file's mapping restricted to the keys the
\* destination format can hold (for mp3 the keys EasyID3 knows, for ogg every
\* key), the gain keys being ignored for mp3; and a job whose mappings are
\* already equal rewrites nothing.
C13_RoundTripOfRepresentableTags ==
    /\ [](\A j \in Synced :
            IF cfg.format = MP3
            THEN WithoutGain(dstFiles[JobFinal(j)].tags)
                     = WithoutGain(Representable(srcTree[JobSrc(j)].tags))
            ELSE dstFiles[JobFinal(j)].tags = srcTree[JobSrc(j)].tags)
    /\ [][NotRewrittenWhenEqual]_vars

\* a second run has tag-synced an mp3 file whose source has a key EasyID3 does
\* not know: the mappings were equal and nothing was rewritten
C13_Witness ==
    /\ cfg.format = MP3
    /\ Len(runs) >= 1
    /\ \E j \in Synced :
          /\ j.kind = "tagsync"
          /\ has_tag(srcTree[JobSrc(j)].tags, "COMMENT")
          /\ ~has_tag(dstFiles[JobFinal(j)].tags, "COMMENT")
          /\ has_tag(dstFiles[JobFinal(j)].tags, "TITLE")
          /\ \A e \in events : e.op # "tag"

(***************************************************************************)
(* C14  Job partition                                                      *)
(***************************************************************************)
\* a file named f is in the destination once the staleness loops are over
PresentAfterStaleness(f) == f \in DOMAIN dst0 /\ ~Refreshed(f)

\* job list kind has a job for the logical name m
Yields(kind, m) == m \in JobNames(kind, CurScan)

\* C14: once the staleness loops are over, every accepted lossless file has a
\* transcode job and no tag-sync job when no file of the target format is at
\* its logical name, and a tag-sync job and no transcode job otherwise; every
\* other accepted file has a copy job exactly when no file is at its logical
\* name; and every file deleted as stale is the target of a copy or a
\* transcode job.
C14_JobPartition ==
    StalenessDecided =>
        /\ \A n \in AcceptedNames :
              IF is_flac(n)
              THEN LET m == modified_flac_name(srcTree, strip_ext(n), cfg)
                   IN  /\ Yields("transcode", m) <=> ~PresentAfterStaleness(LogicalName(n))
                       /\ Yields("tagsync", m) <=> PresentAfterStaleness(LogicalName(n))
              ELSE Yields("copy", LogicalName(n)) <=> ~PresentAfterStaleness(LogicalName(n))
        /\ \A f \in DOMAIN dst0 :
              Refreshed(f) =>
                  \/ Yields("copy", f)
                  \/ \E m \in JobNames("transcode", CurScan) : with_ext(m, cfg.format) = f

(***************************************************************************)
(* C15  Fail-fast scan/diff                                                *)
(***************************************************************************)
\* the run aborts on an error raised by the scan, the normalization or a
\* staleness comparison
ScanDiffAbort ==
    pc \in {"scan", "stale_flac", "stale_other"} /\ pc' = "failed"

\* C15: when a run aborts on an error raised while scanning, normalizing or
\* comparing modification times, the run has deleted, created and modified
\* nothing: the destination files are those the run started with.
C15_FailFastScanDiff ==
    [][ScanDiffAbort => (events' = {} /\ dstFiles' = dst0)]_vars

(***************************************************************************)
(* C16  Parent directory exists                                            *)
(***************************************************************************)
\* the copy and transcode jobs handed to the pool so far
CreateJobs == {j \in DOMAIN jobs : j.kind \in {"copy", "transcode"}}

\* C16: under each naming policy, from the moment a copy or transcode job is
\* handed to the pool every directory above its destination path is in the
\* destination; the required directory set holds every directory above every
\* job destination and above each of its own members; and no directory removed
\* by the pruning loop is a required directory or lies above one.
C16_ParentDirectoryExists ==
    /\ \A j \in CreateJobs :
          /\ Ancestors(JobFinal(j)) \subseteq DOMAIN dstDirs
          /\ Ancestors(JobFinal(j)) \subseteq src_dirs
    /\ \A d \in src_dirs : Ancestors(d) \subseteq src_dirs
    /\ \A e \in Ops({"delete_dir"}) :
          \A d \in src_dirs : d # e.name /\ ~Below(d, e.name)

\* a job has written a file two directories deep, in a directory this run had
\* to create after the pruning loop removed another
C16_Witness ==
    /\ Ops({"delete_dir"}) # {}
    /\ \E j \in CreateJobs :
          /\ jobs[j] = "done"
          /\ Cardinality(Ancestors(JobFinal(j))) = 2
          /\ \E e \in Ops({"create_dir"}) : e.name = dirname(JobFinal(j))

(***************************************************************************)
(* C17  Directory permission rule of the Access Filter                     *)
(***************************************************************************)
RECURSIVE claimed_access(_, _, _, _)
\* the rule as C17 states it: a directory needs execute permission alone when
\* its path is no longer than the root's or when it is itself the target a
\* link resolves to, and read and execute permission otherwise, the
\* directories above a link's target among them
claimed_access(fs, src, path, target) ==
    IF dirname(path) # path /\ ~claimed_access(fs, src, dirname(path), FALSE)
    THEN FALSE
    ELSE LET st == lstat(fs, path)
         IN  IF st = <<>> THEN FALSE
             ELSE IF st[1].type = "link"
             THEN claimed_access(fs, src, pathjoin(dirname(path), st[1].target), TRUE)
             ELSE entry_access(st[1], path, src, target)

\* C17: with a user configured, _has_access answers for a path what the
\* directory permission rule gives: execute permission alone for a directory
\* whose path is no longer than the root's or that is itself the resolved
\* target of a symbolic link, read and execute permission for every other
\* directory on the path, the directories above a link's target that lie
\* deeper than the root included, in the class chosen by UID, else GID, else
\* other; and every directory above the path has to pass.
C17_DirectoryPermissionRule ==
    acResult # <<>> => acResult[1] = claimed_access(acFs, SrcRoot, acPath, FALSE)

(***************************************************************************)
(* C18  Coarse time mode                                                   *)
(***************************************************************************)
\* t is a whole even second
WholeEvenSecond(t) == t % (2 * TicksPerSecond) = 0

\* C18: when a run with the fat option has ended without an error, every file
\* a copy, transcode or tag-sync job has written and every required directory
\* the destination holds, the directories this run created among them, has a
\* modification time that is a whole even second.
C18_CoarseTimeMode ==
    (pc = "done" /\ cfg.fat) =>
        /\ \A j \in DOMAIN jobs :
              jobs[j] = "done" => WholeEvenSecond(dstFiles[JobFinal(j)].mtime)
        /\ \A d \in RequiredDirs \cap DOMAIN dstDirs : WholeEvenSecond(dstDirs[d])

(***************************************************************************)
(* C19  Ancestor walk                                                      *)
(***************************************************************************)
\* the directories above the file strictly below the source root, as the
\* naming policy writes them
WalkExpected ==
    { modified_dirname(d, wkCfg) : d \in Ancestors(relpath(wkName, SrcRoot)) }

\* C19: for each form of the source root and each accepted file the loop ends,
\* after no more iterations than the file has directories above it below the
\* root and without an error; it has then recorded exactly those directories;
\* and at no time has it recorded anything else, such as "." for the root or
\* ".." for the directory above it.
C19_AncestorWalk ==
    /\ wkSteps <= Cardinality(Ancestors(relpath(wkName, SrcRoot)))
    /\ wkPc # "raised"
    /\ wkPc = "walked" => wkDirs = WalkExpected
    /\ wkDirs \subseteq WalkExpected

(***************************************************************************)
(* C20  round_mtime                                                        *)
(***************************************************************************)
\* the smallest whole even second that is not before t
LeastEvenSecondFrom(t) ==
    CHOOSE u \in t..(t + 2 * TicksPerSecond) :
        /\ WholeEvenSecond(u)
        /\ \A v \in t..(u - 1) : ~WholeEvenSecond(v)

\* C20: once round_mtime has been called on a file, a modification time that
\* was a whole even second is unchanged and any other is the smallest whole
\* even second greater than or equal to it; the access time is unchanged and
\* the modification time has not decreased; and a further call of round_mtime
\* changes nothing.
C20_RoundMtime ==
    /\ [](rmCalls >= 1 =>
            /\ WholeEvenSecond(rmStat0.st_mtime) => rmStat.st_mtime = rmStat0.st_mtime
            /\ rmStat.st_mtime = LeastEvenSecondFrom(rmStat0.st_mtime)
            /\ rmStat.st_atime = rmStat0.st_atime
            /\ rmStat.st_mtime >= rmStat0.st_mtime)
    /\ [][rmCalls >= 1 => rmStat' = rmStat]_vars

\* round_mtime has been called twice on a file whose modification time was a
\* fraction of a second past an odd second, and has moved it forward
C20_Witness ==
    /\ rmCalls = 2
    /\ rmStat0.st_mtime % TicksPerSecond # 0
    /\ (rmStat0.st_mtime \div TicksPerSecond) % 2 = 1
    /\ rmStat.st_mtime > rmStat0.st_mtime
    /\ rmStat0.st_atime # 0

====
